---- MODULE Spec2Model ----
(***************************************************************************)
(* A model of jobber's command inference (src/src/command.rs), of the job  *)
(* list and its tag resolution (src/src/job_list.rs), of the tag set       *)
(* (src/src/tag_set.rs), of the calendar report (src/src/reports.rs) and   *)
(* of the difference of two instants (src/src/date_time.rs).               *)
(*                                                                         *)
(* Instants are whole minutes of local time; a calendar day has            *)
(* DayMinutes minutes.  An Option<T> is a sequence: None is <<>> and       *)
(* Some(x) is <<x>>.  A String that the code splits is a sequence of       *)
(* one-character strings.                                                  *)
(***************************************************************************)
EXTENDS Integers, Sequences, FiniteSets, TLC

VARIABLES
    args,                   \* the parsed command line (Args)
    open_start,             \* Option<DateTime>: start of the open job
    now,                    \* context.current()
    pc,                     \* "args", "parsed", "panic_parse", "panic_set_message"
    cmd,                    \* the Command that Command::parse produced
    last_message,           \* Option<String>: argument of the last set_message
    tag_configuration,      \* JobList.tag_configuration
    default_configuration,  \* JobList.default_configuration
    query_tags,             \* the TagSet handed to get_configuration_with_tag
    resolved,               \* Option<(String, Configuration)>: its result
    jobs,                   \* JobList.jobs: Vec<(usize, Job)>
    call,                   \* the last call on the JobList and its arguments
    limit_report,           \* Option: what limit lets its caller know
    tagset,                 \* a TagSet: TagSet.0, tags as character sequences
    ts_call,                \* the last call on the TagSet and its arguments
    ts_result,              \* Option<TagSet>: what modify returned
    rep_out,                \* Option: what report has written
    sub_self,               \* left operand of DateTime - DateTime, in seconds
    sub_other,              \* right operand, in seconds
    sub_result              \* Option<Duration::HM>: the difference

vars == <<args, open_start, now, pc, cmd, last_message,
          tag_configuration, default_configuration, query_tags, resolved,
          jobs, call, limit_report, tagset, ts_call, ts_result, rep_out,
          sub_self, sub_other, sub_result>>

cmdVars == <<args, open_start, now, pc, cmd, last_message>>
listVars == <<tag_configuration, default_configuration, query_tags, resolved>>
jobVars == <<jobs, call, limit_report>>
tsVars == <<tagset, ts_call, ts_result>>
repVars == <<rep_out>>
subVars == <<sub_self, sub_other, sub_result>>

(***************************************************************************)
(* Bounds of the model.                                                    *)
(***************************************************************************)
\* times of day that a time spec may name: Slots of them, evenly spread
Slots == 4
\* explicit dates lie at most MaxDayOff days before or after today
MaxDayOff == 2
\* at most MaxRequests of the request and configuration inputs are combined
MaxRequests == 3
\* longest TagSet handed to get_configuration_with_tag
MaxTagLen == 3
\* most entries a JobList holds
MaxJobs == 3
\* longest vector or string a TagSet is built from, and most tags it holds
MaxTags == 3
\* most entries of a modification handed to modify
MaxMods == 2
\* most jobs of a JobList handed to report
MaxReportJobs == 2
\* the instants subtracted are the multiples of SubStep seconds up to this
MaxSubSteps == 11

(***************************************************************************)
(* Option<T>                                                               *)
(***************************************************************************)
None == <<>>
Some(x) == <<x>>
IsSome(o) == o # <<>>
Flatten(o) == IF o = <<>> THEN <<>> ELSE o[1]

(***************************************************************************)
(* Instants, partial date-times and durations                              *)
(***************************************************************************)
\* Duration::days(1), in minutes
DayMinutes == 1440

DateOf(t) == t \div DayMinutes
TimeOf(t) == t % DayMinutes

PdtNone == [kind |-> "None", day |-> 0, tod |-> 0]

\* PartialDateTime::parse on a tokenised spec: no field, a time of day, or a
\* date and a time of day
PartialDateTimeParse(tok) ==
    IF Len(tok) = 0 THEN PdtNone
    ELSE IF Len(tok) = 1 THEN [kind |-> "HM", day |-> 0, tod |-> tok[1]]
    ELSE [kind |-> "YMDHM", day |-> tok[1], tod |-> tok[2]]

\* PartialDateTime::into(base): missing fields default from base
PartialInto(p, base) ==
    IF p.kind = "None" THEN base
    ELSE IF p.kind = "HM" THEN DateOf(base) * DayMinutes + p.tod
    ELSE p.day * DayMinutes + p.tod

\* Duration::parse on a tokenised duration: zero, or hours and minutes
DurationParse(tok) ==
    IF Len(tok) = 0 THEN [kind |-> "Zero", hours |-> 0, minutes |-> 0]
    ELSE [kind |-> "HM", hours |-> tok[1], minutes |-> tok[2]]

\* Duration::into_chrono, in minutes
IntoChrono(d) == IF d.kind = "Zero" THEN 0 ELSE d.hours * 60 + d.minutes

\* Range::parse: the range a list, report, export or list-tags request names
RangeParse(r, current) == [spec |-> r, at |-> current]

(***************************************************************************)
(* str::split(sep) on a sequence of characters                             *)
(***************************************************************************)
RECURSIVE SplitFrom(_, _, _, _)
SplitFrom(s, sep, i, cur) ==
    IF i > Len(s) THEN <<cur>>
    ELSE IF s[i] = sep THEN <<cur>> \o SplitFrom(s, sep, i + 1, <<>>)
    ELSE SplitFrom(s, sep, i + 1, Append(cur, s[i]))

Split(s, sep) == SplitFrom(s, sep, 1, <<>>)

(***************************************************************************)
(* Command::parse                                                          *)
(***************************************************************************)
\* ResolveBareEnd moving the end forward where the code moves the start back
ResolveBareEndRollsEnd(start, endP, current) ==
    LET end == PartialInto(endP, current)
    IN  IF end < start THEN <<start, end + DayMinutes>> ELSE <<start, end>>

\* a bare end marker: the end is the current time, the start moves back
ResolveBareEnd(start, endP, current) ==
    LET end == PartialInto(endP, current)
    IN  IF end < start THEN <<start - DayMinutes, end>> ELSE <<start, end>>

\* ResolveGivenEnd without the step over midnight
ResolveGivenEndNoRoll(start, endP) == <<start, PartialInto(endP, start)>>

\* an end with explicit fields: resolved against the start, moves forward
ResolveGivenEnd(start, endP) ==
    LET end == PartialInto(endP, start)
    IN  IF end < start THEN <<start, end + DayMinutes>> ELSE <<start, end>>

\* StartBranch asking for the duration before the end spec
StartBranchDurationFirst(startP, end, duration, message, tags, current) ==
    LET start == PartialInto(startP, current)
    IN  IF IsSome(duration) THEN
            [variant |-> "Add", start |-> start,
             end |-> start + IntoChrono(duration[1]),
             message |-> message, tags |-> tags]
        ELSE IF IsSome(end) THEN
            LET se == IF end[1] = PdtNone
                      THEN ResolveBareEnd(start, end[1], current)
                      ELSE ResolveGivenEnd(start, end[1])
            IN  [variant |-> "Add", start |-> se[1], end |-> se[2],
                 message |-> message, tags |-> tags]
        ELSE
            [variant |-> "Start", start |-> start,
             message |-> message, tags |-> tags]

\* if let Some(start) = start { ... }
StartBranch(startP, end, duration, message, tags, current) ==
    LET start == PartialInto(startP, current)
    IN  IF IsSome(end) THEN
            LET se == IF end[1] = PdtNone
                      THEN ResolveBareEnd(start, end[1], current)
                      ELSE ResolveGivenEnd(start, end[1])
            IN  [variant |-> "Add", start |-> se[1], end |-> se[2],
                 message |-> message, tags |-> tags]
        ELSE IF IsSome(duration) THEN
            [variant |-> "Add", start |-> start,
             end |-> start + IntoChrono(duration[1]),
             message |-> message, tags |-> tags]
        ELSE
            [variant |-> "Start", start |-> start,
             message |-> message, tags |-> tags]

\* else if let Some(start) = back { ... }
BackBranch(startP, end, duration, message, tags, current) ==
    LET start == PartialInto(startP, current)
    IN  IF IsSome(end) THEN
            LET se == IF end[1] = PdtNone
                      THEN ResolveBareEnd(start, end[1], current)
                      ELSE ResolveGivenEnd(start, end[1])
            IN  [variant |-> "BackAdd", start |-> se[1], end |-> se[2],
                 message |-> message, tags |-> tags]
        ELSE IF IsSome(duration) THEN
            [variant |-> "BackAdd", start |-> start,
             end |-> start + IntoChrono(duration[1]),
             message |-> message, tags |-> tags]
        ELSE
            [variant |-> "Back", start |-> start,
             message |-> message, tags |-> tags]

\* EndBase that never looks at the open job
EndBaseCurrent(open, current) == current

\* the instant an End's spec is resolved against
EndBase(open, current) == IF IsSome(open) THEN open[1] ELSE current

\* else if let Some(end) = end { ... }
EndBranch(endP, open, message, tags, current) ==
    [variant |-> "End", end |-> PartialInto(endP, EndBase(open, current)),
     message |-> message, tags |-> tags]

\* the panic of the last else
UnknownCommand == [variant |-> "panic", text |-> "unknown command"]

\* MessageTagsBranch that amends the open job when nothing at all is given
MessageTagsBranchDefault(set_configuration, message, tags) ==
    IF ~set_configuration THEN
        [variant |-> "MessageTags", message |-> Flatten(message),
         tags |-> tags]
    ELSE UnknownCommand

\* the last two branches: MessageTags, or the panic
MessageTagsBranch(set_configuration, message, tags) ==
    IF ~set_configuration /\ (IsSome(message) \/ IsSome(tags)) THEN
        [variant |-> "MessageTags", message |-> Flatten(message),
         tags |-> tags]
    ELSE UnknownCommand

\* RequestBranch asking for list_tags right after report
RequestBranchListTagsFirst(a, list, export, report, list_tags, message, tags, current) ==
    LET set_configuration ==
            IsSome(a.resolution) \/ IsSome(a.pay) \/ IsSome(a.max_hours)
    IN  IF IsSome(list) THEN
            [variant |-> "List", range |-> list[1], tags |-> tags]
        ELSE IF IsSome(export) THEN
            [variant |-> "ExportCSV", range |-> export[1], tags |-> tags,
             context |-> current, columns |-> a.csv]
        ELSE IF IsSome(report) THEN
            [variant |-> "Report", range |-> report[1], tags |-> tags,
             context |-> current]
        ELSE IF IsSome(list_tags) THEN
            [variant |-> "ListTags", range |-> list_tags[1], tags |-> tags]
        ELSE IF a.configuration THEN
            [variant |-> "ShowConfiguration"]
        ELSE IF IsSome(a.resolution) \/ IsSome(a.pay) \/ IsSome(a.max_hours) THEN
            [variant |-> "SetConfiguration", resolution |-> a.resolution,
             pay |-> a.pay, tags |-> tags, max_hours |-> a.max_hours]
        ELSE IF IsSome(a.legacy_import) THEN
            [variant |-> "LegacyImport", filename |-> a.legacy_import[1]]
        ELSE MessageTagsBranch(set_configuration, message, tags)

\* the branches after the start, back and end branches
RequestBranch(a, list, export, report, list_tags, message, tags, current) ==
    LET set_configuration ==
            IsSome(a.resolution) \/ IsSome(a.pay) \/ IsSome(a.max_hours)
    IN  IF IsSome(list) THEN
            [variant |-> "List", range |-> list[1], tags |-> tags]
        ELSE IF IsSome(export) THEN
            [variant |-> "ExportCSV", range |-> export[1], tags |-> tags,
             context |-> current, columns |-> a.csv]
        ELSE IF IsSome(report) THEN
            [variant |-> "Report", range |-> report[1], tags |-> tags,
             context |-> current]
        ELSE IF a.configuration THEN
            [variant |-> "ShowConfiguration"]
        ELSE IF IsSome(a.resolution) \/ IsSome(a.pay) \/ IsSome(a.max_hours) THEN
            [variant |-> "SetConfiguration", resolution |-> a.resolution,
             pay |-> a.pay, tags |-> tags, max_hours |-> a.max_hours]
        ELSE IF IsSome(a.legacy_import) THEN
            [variant |-> "LegacyImport", filename |-> a.legacy_import[1]]
        ELSE IF IsSome(list_tags) THEN
            [variant |-> "ListTags", range |-> list_tags[1], tags |-> tags]
        ELSE MessageTagsBranch(set_configuration, message, tags)

\* Command::parse letting an end spec end the open job whenever there is one
ParseOpenJobEnds(a, open, current) ==
    LET start == IF IsSome(a.start)
                 THEN Some(PartialDateTimeParse(a.start[1])) ELSE None
        back == IF IsSome(a.back)
                THEN Some(PartialDateTimeParse(a.back[1])) ELSE None
        end == IF IsSome(a.end)
               THEN Some(PartialDateTimeParse(a.end[1])) ELSE None
        duration == IF IsSome(a.duration)
                    THEN Some(DurationParse(a.duration[1])) ELSE None
        message == a.message
        tags == IF IsSome(a.tags) THEN Some(Split(a.tags[1], ",")) ELSE None
        list == IF IsSome(a.list)
                THEN Some(RangeParse(a.list[1], current)) ELSE None
        report == IF IsSome(a.report)
                  THEN Some(RangeParse(a.report[1], current)) ELSE None
        export == IF IsSome(a.export)
                  THEN Some(RangeParse(a.export[1], current)) ELSE None
        list_tags == IF IsSome(a.list_tags)
                     THEN Some(RangeParse(a.list_tags[1], current)) ELSE None
    IN  IF IsSome(open) /\ IsSome(end) THEN
            EndBranch(end[1], open, message, tags, current)
        ELSE IF IsSome(start) THEN
            StartBranch(start[1], end, duration, message, tags, current)
        ELSE IF IsSome(back) THEN
            BackBranch(back[1], end, duration, message, tags, current)
        ELSE IF IsSome(end) THEN
            EndBranch(end[1], open, message, tags, current)
        ELSE
            RequestBranch(a, list, export, report, list_tags, message, tags,
                          current)

\* Command::parse(args, open_start, context)
Parse(a, open, current) ==
    LET start == IF IsSome(a.start)
                 THEN Some(PartialDateTimeParse(a.start[1])) ELSE None
        back == IF IsSome(a.back)
                THEN Some(PartialDateTimeParse(a.back[1])) ELSE None
        end == IF IsSome(a.end)
               THEN Some(PartialDateTimeParse(a.end[1])) ELSE None
        duration == IF IsSome(a.duration)
                    THEN Some(DurationParse(a.duration[1])) ELSE None
        message == a.message
        tags == IF IsSome(a.tags) THEN Some(Split(a.tags[1], ",")) ELSE None
        list == IF IsSome(a.list)
                THEN Some(RangeParse(a.list[1], current)) ELSE None
        report == IF IsSome(a.report)
                  THEN Some(RangeParse(a.report[1], current)) ELSE None
        export == IF IsSome(a.export)
                  THEN Some(RangeParse(a.export[1], current)) ELSE None
        list_tags == IF IsSome(a.list_tags)
                     THEN Some(RangeParse(a.list_tags[1], current)) ELSE None
    IN  IF IsSome(start) THEN
            StartBranch(start[1], end, duration, message, tags, current)
        ELSE IF IsSome(back) THEN
            BackBranch(back[1], end, duration, message, tags, current)
        ELSE IF IsSome(end) THEN
            EndBranch(end[1], open, message, tags, current)
        ELSE
            RequestBranch(a, list, export, report, list_tags, message, tags,
                          current)

\* the panic of set_message's last arm
SetMessagePanic ==
    [variant |-> "panic",
     text |-> "try to set message of command which has no message"]

\* set_message that keeps a message the command already has
SetMessageKeepsOld(c, new_message) ==
    IF c.variant \in {"Start", "Add", "Back", "BackAdd", "End"}
    THEN IF c.message = None \/ c.message = Some(None)
         THEN [c EXCEPT !.message = Some(Some(new_message))]
         ELSE c
    ELSE SetMessagePanic

\* set_message with an arm for MessageTags as well
SetMessageAlsoMessageTags(c, new_message) ==
    IF c.variant \in {"Start", "Add", "Back", "BackAdd", "End"}
    THEN [c EXCEPT !.message = Some(Some(new_message))]
    ELSE IF c.variant = "MessageTags"
    THEN [c EXCEPT !.message = Some(new_message)]
    ELSE SetMessagePanic

\* Command::set_message(new_message)
SetMessage(c, new_message) ==
    CASE c.variant = "Start" -> [c EXCEPT !.message = Some(Some(new_message))]
      [] c.variant = "Add" -> [c EXCEPT !.message = Some(Some(new_message))]
      [] c.variant = "Back" -> [c EXCEPT !.message = Some(Some(new_message))]
      [] c.variant = "BackAdd" -> [c EXCEPT !.message = Some(Some(new_message))]
      [] c.variant = "End" -> [c EXCEPT !.message = Some(Some(new_message))]
      [] OTHER -> SetMessagePanic

(***************************************************************************)
(* JobList::get_configuration_with_tag                                     *)
(***************************************************************************)
RECURSIVE GetFrom(_, _, _, _)
GetFrom(tags, i, tagconf, default) ==
    IF i > Len(tags) THEN <<"", default>>
    ELSE IF tags[i] \in DOMAIN tagconf THEN <<tags[i], tagconf[tags[i]]>>
    ELSE GetFrom(tags, i + 1, tagconf, default)

\* get_configuration_with_tag returning the last tag with an override
RECURSIVE GetLastFrom(_, _, _, _)
GetLastFrom(tags, i, tagconf, default) ==
    IF i < 1 THEN <<"", default>>
    ELSE IF tags[i] \in DOMAIN tagconf THEN <<tags[i], tagconf[tags[i]]>>
    ELSE GetLastFrom(tags, i - 1, tagconf, default)

GetConfigurationWithTagLast(tags, tagconf, default) ==
    GetLastFrom(tags, Len(tags), tagconf, default)

GetConfigurationWithTag(tags, tagconf, default) ==
    GetFrom(tags, 1, tagconf, default)

(***************************************************************************)
(* JobList: push, limit, positions, the listing, hours and pay             *)
(***************************************************************************)
\* Job::hours(configuration), counted in minutes: the time from start to end
\* rounded up to the configuration's resolution
Hours(job, configuration) ==
    LET minutes == job.end - job.start
        r == configuration.resolution
    IN  ((minutes + r - 1) \div r) * r

\* JobList::get_configuration
GetConfiguration(tags, tagconf, default) ==
    GetConfigurationWithTag(tags, tagconf, default)[2]

\* push storing the entry's index in the list where the code stores pos
PushIndex(js, pos, job) == Append(js, <<Len(js), job>>)

\* JobList::push(pos, job)
Push(js, pos, job) == Append(js, <<pos, job>>)

\* limit dropping entries from the back
RECURSIVE LimitFromBack(_, _)
LimitFromBack(js, count) ==
    IF Len(js) > count
    THEN LimitFromBack(SubSeq(js, 1, Len(js) - 1), count)
    ELSE js

\* JobList::limit(count): while self.jobs.len() > count { remove(0) }
RECURSIVE Limit(_, _)
Limit(js, count) ==
    IF Len(js) > count THEN Limit(Tail(js), count) ELSE js

\* what limit hands back to its caller: it returns (), writes nothing
LimitReport(js, count) == None

\* JobList::positions()
Positions(js) == {js[i][1] : i \in 1..Len(js)}

\* the "Pos:" lines of the Display of a JobList
Listing(js) == [i \in 1..Len(js) |-> js[i][1] + 1]

\* the loop of pay_overall: <<pay_sum, has_payment>> after the jobs from i on
RECURSIVE PayLoop(_, _, _, _, _, _)
PayLoop(js, i, tagconf, default, pay_sum, has_payment) ==
    IF i > Len(js) THEN <<pay_sum, has_payment>>
    ELSE LET job == js[i][2]
             configuration == GetConfiguration(job.tags, tagconf, default)
         IN  IF IsSome(configuration.pay)
             THEN PayLoop(js, i + 1, tagconf, default,
                          pay_sum + configuration.pay[1]
                                        * Hours(job, configuration), TRUE)
             ELSE PayLoop(js, i + 1, tagconf, default, pay_sum, has_payment)

\* pay_overall answering Some(0) where the code answers None
PayOverallZero(js, tagconf, default) ==
    Some(PayLoop(js, 1, tagconf, default, 0, FALSE)[1])

\* JobList::pay_overall(), in sixtieths (the hours are counted in minutes)
PayOverall(js, tagconf, default) ==
    LET r == PayLoop(js, 1, tagconf, default, 0, FALSE)
    IN  IF r[2] THEN Some(r[1]) ELSE None

(***************************************************************************)
(* TagSet: the conversions into it, insert, insert_many, remove, modify    *)
(***************************************************************************)
\* Vec::dedup: of every run of equal neighbours the first is kept
RECURSIVE Dedup(_)
Dedup(v) ==
    IF Len(v) <= 1 THEN v
    ELSE IF v[1] = v[2] THEN Dedup(Tail(v))
    ELSE <<v[1]>> \o Dedup(Tail(v))

\* From<Vec<String>> for TagSet
FromVec(v) == Dedup(v)

\* From<Option<Vec<String>>> for TagSet
FromOptionVec(o) == IF IsSome(o) THEN Dedup(o[1]) ELSE <<>>

\* From<&str> and From<&String> for TagSet
FromStr(str) == Split(str, "*")

\* From<&Option<String>> for TagSet
FromOptionString(o) == IF IsSome(o) THEN Split(o[1], "*") ELSE <<>>

\* TagSet::contains
Contains(ts, tag) == \E i \in 1..Len(ts) : ts[i] = tag

\* TagSet::insert
Insert(ts, tag) == IF Contains(ts, tag) THEN ts ELSE Append(ts, tag)

\* TagSet::insert_many
RECURSIVE InsertMany(_, _)
InsertMany(ts, v) ==
    IF v = <<>> THEN ts ELSE InsertMany(Insert(ts, Head(v)), Tail(v))

\* the test of the filter in TagSet::remove
Differs(t, tag) == t # tag

\* TagSet::remove
Remove(ts, tag) == SelectSeq(ts, LAMBDA t : Differs(t, tag))

\* str::starts_with and str::ends_with of one character
StartsWith(tag, c) == Len(tag) > 0 /\ tag[1] = c
EndsWith(tag, c) == Len(tag) > 0 /\ tag[Len(tag)] = c

\* the loop of modify: <<tags, modify>> after the entries from i on;
\* tag[1..] is Tail(tag)
RECURSIVE ModifyLoop(_, _, _, _)
ModifyLoop(modification, i, tags, modify) ==
    IF i > Len(modification) THEN <<tags, modify>>
    ELSE LET tag == modification[i]
         IN  IF StartsWith(tag, "+") \/ EndsWith(tag, "+")
             THEN ModifyLoop(modification, i + 1, Insert(tags, Tail(tag)), TRUE)
             ELSE IF StartsWith(tag, "-") \/ EndsWith(tag, "-")
             THEN ModifyLoop(modification, i + 1, Remove(tags, Tail(tag)), TRUE)
             ELSE ModifyLoop(modification, i + 1, tags, modify)

\* TagSet::modify: self is not read
Modify(self, modification) ==
    LET r == ModifyLoop(modification, 1, <<>>, FALSE)
    IN  IF r[2] THEN r[1] ELSE modification

(***************************************************************************)
(* The calendar of the year the reported jobs lie in.  Minute 0 is         *)
(* 2023-01-01 00:00 local, a Sunday.                                       *)
(***************************************************************************)
ReportYear == 2023

MonthDays == <<31, 28, 31, 30, 31, 30, 31, 31, 30, 31, 30, 31>>

\* days_in_month(year, month): the number of days of the month
DaysInMonth(year, month) == MonthDays[month]

RECURSIVE DaysBefore(_)
DaysBefore(month) ==
    IF month = 1 THEN 0 ELSE DaysBefore(month - 1) + MonthDays[month - 1]

\* the local instant of a date and time of the year
At(month, day, hour, minute) ==
    (DaysBefore(month) + day - 1) * DayMinutes + hour * 60 + minute

DayOfYear(t) == t \div DayMinutes

RECURSIVE MonthFrom(_, _)
MonthFrom(d, month) ==
    IF d < MonthDays[month] THEN month
    ELSE MonthFrom(d - MonthDays[month], month + 1)

\* Datelike::month and Datelike::day of a local instant
MonthOf(t) == MonthFrom(DayOfYear(t), 1)
DayOf(t) == DayOfYear(t) - DaysBefore(MonthOf(t)) + 1

\* NaiveDate::from_ymd_opt(..).weekday().num_days_from_sunday()
NumDaysFromSunday(year, month, day) == (DaysBefore(month) + day - 1) % 7

(***************************************************************************)
(* report: splitting, bucketing, the calendar grid, the total              *)
(***************************************************************************)
\* Job::split: one fragment per local day the job touches
RECURSIVE SplitDays(_, _)
SplitDays(job, from) ==
    LET midnight == (DayOfYear(from) + 1) * DayMinutes
    IN  IF job.end <= midnight THEN <<[job EXCEPT !.start = from]>>
        ELSE <<[job EXCEPT !.start = from, !.end = midnight]>>
                 \o SplitDays(job, midnight)

JobSplit(job) == SplitDays(job, job.start)

\* Configuration::get_and_why: the tag that decided, if any, and its
\* configuration
GetAndWhy(tags, tagconf, default) ==
    LET r == GetConfigurationWithTag(tags, tagconf, default)
    IN  <<IF r[1] = "" THEN None ELSE Some(r[1]), r[2]>>

\* Configuration::get_checked of a bucket's tag
GetChecked(tag, tagconf, default) ==
    IF tag = None THEN default ELSE tagconf[tag[1]]

\* the bucket keyed by the day the job ends on
BucketKeyEnd(job, tagconf, default) ==
    <<ReportYear, MonthOf(job.end), DayOf(job.end),
      GetAndWhy(job.tags, tagconf, default)[1]>>

\* year, month, day and tag a fragment is counted under
BucketKey(job, tagconf, default) ==
    <<ReportYear, MonthOf(job.start), DayOf(job.start),
      GetAndWhy(job.tags, tagconf, default)[1]>>

\* *hours += job_hours, the entry made with 0.0 first if missing
AddHours(years, key, job_hours) ==
    IF key \in DOMAIN years THEN [years EXCEPT ![key] = @ + job_hours]
    ELSE years @@ (key :> job_hours)

\* the inner loop of the bucketing: the fragments of one job
RECURSIVE AddFragments(_, _, _, _)
AddFragments(years, fragments, tagconf, default) ==
    IF fragments = <<>> THEN years
    ELSE LET job == Head(fragments)
             properties == GetAndWhy(job.tags, tagconf, default)[2]
         IN  AddFragments(AddHours(years, BucketKey(job, tagconf, default),
                                   Hours(job, properties)),
                          Tail(fragments), tagconf, default)

\* the outer loop of the bucketing; the nested maps year -> month -> day ->
\* tag are one map from <<year, month, day, tag>>
RECURSIVE Bucketing(_, _, _, _)
Bucketing(years, js, tagconf, default) ==
    IF js = <<>> THEN years
    ELSE Bucketing(AddFragments(years, JobSplit(Head(js)[2]), tagconf, default),
                   Tail(js), tagconf, default)

\* the buckets of one day
DayKeys(years, year, month, day) ==
    {k \in DOMAIN years : k[1] = year /\ k[2] = month /\ k[3] = day}

\* day_hours: the hours of all tags of a day
RECURSIVE DayHours(_, _)
DayHours(years, keys) ==
    IF keys = {} THEN 0
    ELSE LET k == CHOOSE x \in keys : TRUE
         IN  years[k] + DayHours(years, keys \ {k})

\* the sum of hours * rate over the given buckets
RECURSIVE SumCosts(_, _, _, _)
SumCosts(years, keys, tagconf, default) ==
    IF keys = {} THEN 0
    ELSE LET k == CHOOSE x \in keys : TRUE
         IN  years[k] * GetChecked(k[4], tagconf, default).pay[1]
                 + SumCosts(years, keys \ {k}, tagconf, default)

\* day_costs: None unless a tag of the day has a rate
DayCosts(years, keys, tagconf, default) ==
    LET rated == {k \in keys : IsSome(GetChecked(k[4], tagconf, default).pay)}
    IN  IF rated = {} THEN None
        ELSE Some(SumCosts(years, rated, tagconf, default))

\* a weekly sum written to the grid, and the number of day cells written
\* before it
WeekSum(st) == [hours |-> st.week_hours, at |-> Len(st.cells)]

\* one turn of the loop over the days of a month; st.day is the loop's day
DayStep(st, years, year, month, tagconf, default) ==
    LET day == st.day
        sunday == NumDaysFromSunday(year, month, day) = 0
        st1 == IF sunday
               THEN [st EXCEPT !.weeks = Append(@, WeekSum(st)),
                               !.week_hours = 0,
                               !.week_day_number = 0]
               ELSE st
        keys == DayKeys(years, year, month, day)
        day_hours == DayHours(years, keys)
        day_costs == DayCosts(years, keys, tagconf, default)
        st2 == IF keys # {}
               THEN [st1 EXCEPT
                       !.cells = Append(@, [day |-> day,
                                            hours |-> Some(day_hours)]),
                       !.week_hours = @ + day_hours,
                       !.month_hours = @ + day_hours,
                       !.month_costs =
                           IF IsSome(day_costs)
                           THEN Some((IF @ = None THEN 0 ELSE @[1])
                                         + day_costs[1])
                           ELSE @]
               ELSE [st1 EXCEPT
                       !.cells = Append(@, [day |-> day, hours |-> None])]
    IN  [st2 EXCEPT !.week_day_number = @ + 1, !.day = @ + 1]

\* for day in 1..days_in_month(*year, *month): the range ends before `until`
RECURSIVE DayLoop(_, _, _, _, _, _, _)
DayLoop(st, years, year, month, until, tagconf, default) ==
    IF st.day >= until THEN st
    ELSE DayLoop(DayStep(st, years, year, month, tagconf, default),
                 years, year, month, until, tagconf, default)

\* one month of the grid: the cells written, the weekly sums written, the
\* summary line
RenderMonth(years, year, month, month_hours, month_costs, tagconf, default) ==
    LET st0 == [day |-> 1, cells |-> <<>>, weeks |-> <<>>, week_hours |-> 0,
                week_day_number |-> 0, month_hours |-> month_hours,
                month_costs |-> month_costs]
        st == DayLoop(st0, years, year, month, DaysInMonth(year, month),
                      tagconf, default)
    IN  [year |-> year, month |-> month,
         indent |-> NumDaysFromSunday(year, month, 1),
         cells |-> st.cells,
         padding |-> 7 - st.week_day_number,
         weeks |-> Append(st.weeks, WeekSum(st)),
         month_hours |-> st.month_hours,
         month_costs |-> st.month_costs]

\* the <<year, month>> pairs of a set in sorted order
RECURSIVE SortedMonths(_)
SortedMonths(S) ==
    IF S = {} THEN <<>>
    ELSE LET first == CHOOSE x \in S : \A y \in S :
                          x[1] < y[1] \/ (x[1] = y[1] /\ x[2] <= y[2])
         IN  <<first>> \o SortedMonths(S \ {first})

\* a loop over the months that carries month_hours and month_costs on into
\* the next month
RECURSIVE MonthLoopNoReset(_, _, _, _, _, _, _)
MonthLoopNoReset(years, months, i, month_hours, month_costs, tagconf, default) ==
    IF i > Len(months) THEN <<>>
    ELSE LET m == RenderMonth(years, months[i][1], months[i][2], month_hours,
                              month_costs, tagconf, default)
         IN  <<m>> \o MonthLoopNoReset(years, months, i + 1, m.month_hours,
                                       m.month_costs, tagconf, default)

\* the loop over the months: month_hours and month_costs are set back after
\* each summary line
RECURSIVE MonthLoop(_, _, _, _, _, _, _)
MonthLoop(years, months, i, month_hours, month_costs, tagconf, default) ==
    IF i > Len(months) THEN <<>>
    ELSE <<RenderMonth(years, months[i][1], months[i][2], month_hours,
                       month_costs, tagconf, default)>>
             \o MonthLoop(years, months, i + 1, 0, None, tagconf, default)

\* JobList::hours_overall
RECURSIVE HoursOverall(_, _, _)
HoursOverall(js, tagconf, default) ==
    IF js = <<>> THEN 0
    ELSE Hours(Head(js)[2], GetConfiguration(Head(js)[2].tags, tagconf, default))
             + HoursOverall(Tail(js), tagconf, default)

\* report: the map built, the months written and the "Total:" line
Report(js, tagconf, default) ==
    LET years == Bucketing(<<>>, js, tagconf, default)
        months == SortedMonths({<<k[1], k[2]>> : k \in DOMAIN years})
    IN  [years |-> years,
         months |-> MonthLoop(years, months, 1, 0, None, tagconf, default),
         total |-> [jobs |-> Len(js),
                    hours |-> HoursOverall(js, tagconf, default),
                    pay |-> PayOverall(js, tagconf, default)]]

(***************************************************************************)
(* DateTime - DateTime.  The instants are whole seconds here, so that      *)
(* num_minutes has something to cut off.                                   *)
(***************************************************************************)
\* division rounding towards minus infinity
FloorDiv(a, b) == a \div b

\* i64 division: the quotient is rounded towards zero
TruncDiv(a, b) == IF a >= 0 THEN a \div b ELSE -((-a) \div b)

\* i64 remainder: it has the sign of the dividend
TruncRem(a, b) == a - b * TruncDiv(a, b)

\* chrono::Duration::num_minutes of a duration of whole seconds
NumMinutes(seconds) == TruncDiv(seconds, 60)

\* Sub for &DateTime
Sub(self, other) ==
    LET minutes == NumMinutes(self - other)
    IN  [hours |-> TruncDiv(minutes, 60), minutes |-> TruncRem(minutes, 60)]

(***************************************************************************)
(* The inputs the model draws                                              *)
(***************************************************************************)
TimesOfDay == {k * (DayMinutes \div Slots) : k \in 0..(Slots - 1)}
Days == (0 - MaxDayOff)..MaxDayOff

\* a time spec: bare, a time of day, or a date and a time of day
TimeTokens ==
    {<<>>} \cup {<<t>> : t \in TimesOfDay}
           \cup {<<d, t>> : d \in Days, t \in TimesOfDay}

Noon == DayMinutes \div 2
OpenHour == 9 * 60

\* no open job, or one that started yesterday or today at 09:00
OpenStarts == {None, Some(OpenHour - DayMinutes), Some(OpenHour)}

Messages == {None, Some(None), Some(Some("m"))}
TagStrings == {None, Some(<<"a", ",", "b">>)}
NewMessages == {"x", "y"}

NoArgs ==
    [start |-> None, back |-> None, end |-> None, duration |-> None,
     message |-> None, tags |-> None, list |-> None, report |-> None,
     export |-> None, csv |-> "pos,start,end", resolution |-> None,
     pay |-> None, max_hours |-> None, configuration |-> FALSE,
     legacy_import |-> None, list_tags |-> None]

\* invocations rich in time specs: at most one of start and back, any end
TimeArgs ==
    {[NoArgs EXCEPT !.start = s, !.back = b, !.end = e, !.duration = d] :
        s \in {None} \cup {Some(t) : t \in TimeTokens},
        b \in {None} \cup {Some(t) : t \in TimeTokens},
        e \in {None} \cup {Some(t) : t \in TimeTokens},
        d \in {None, Some(<<1, 30>>)}}

RequestNames ==
    {"list", "export", "report", "configuration", "resolution", "pay",
     "max_hours", "legacy_import", "list_tags"}

\* invocations rich in requests: up to MaxRequests of them, with or without
\* a start, a back-reference, an end, a duration, a message and tags
RequestArgs ==
    {[start |-> s, back |-> b, end |-> e, duration |-> d,
      message |-> m, tags |-> t,
      list |-> IF "list" \in R THEN Some("all") ELSE None,
      report |-> IF "report" \in R THEN Some("month") ELSE None,
      export |-> IF "export" \in R THEN Some("week") ELSE None,
      csv |-> "pos,start,end",
      resolution |-> IF "resolution" \in R THEN Some(15) ELSE None,
      pay |-> IF "pay" \in R THEN Some(50) ELSE None,
      max_hours |-> IF "max_hours" \in R THEN Some(8) ELSE None,
      configuration |-> "configuration" \in R,
      legacy_import |-> IF "legacy_import" \in R THEN Some("old.csv") ELSE None,
      list_tags |-> IF "list_tags" \in R THEN Some("year") ELSE None] :
        s \in {None, Some(<<Noon>>)},
        b \in {None, Some(<<Noon>>)},
        e \in {None, Some(<<>>), Some(<<Noon \div 2>>)},
        d \in {None, Some(<<1, 30>>)},
        m \in Messages,
        t \in TagStrings,
        R \in {Q \in SUBSET RequestNames : Cardinality(Q) <= MaxRequests}}

NoCommand == [variant |-> "none"]

Tags == {"a", "b", "c"}
TagSets == UNION {[1..n -> Tags] : n \in 0..MaxTagLen}

\* Configuration: resolution, pay and maximum hours
Configurations ==
    {[resolution |-> 15, pay |-> p, max_hours |-> None] :
        p \in {None, Some(10), Some(20)}}

TagConfigurations == UNION {[D -> Configurations] : D \in SUBSET Tags}

\* the jobs a JobList is given: without a tag, with one tag, with two tags
\* and no duration
JobKinds ==
    {[start |-> 0, end |-> 60, tags |-> <<>>],
     [start |-> 600, end |-> 680, tags |-> <<"a">>],
     [start |-> 720, end |-> 720, tags |-> <<"b", "a">>]}

\* positions in the ledger that a caller hands to push
LedgerPositions == {0, 3, 7}

\* the overrides of a ledger: none, a rate for a, a rate for b only
LedgerTagConfigurations ==
    {<<>>,
     [t \in {"a"} |-> [resolution |-> 15, pay |-> Some(10), max_hours |-> None]],
     [t \in {"a", "b"} |->
        [resolution |-> 15, pay |-> IF t = "b" THEN Some(20) ELSE None,
         max_hours |-> None]]}

NoCall == [op |-> "new", pos |-> 0, job |-> <<>>, count |-> 0, len |-> 0]

InitJobs ==
    /\ jobs = <<>>
    /\ call = NoCall
    /\ limit_report = None

\* the sequences of at most n elements of S
VecsUpTo(S, n) == UNION {[1..k -> S] : k \in 0..n}

\* tags without a marker, and the vectors of them
PlainTags == {<<"a">>, <<"b">>}
TagVecs == VecsUpTo(PlainTags, MaxTags)

\* strings of tags separated by '*'
TagSetStrings == VecsUpTo({"a", "b", "*"}, MaxTags)

\* entries of a modification: plain, marker in front, marker behind
ModTags ==
    {<<"a">>, <<"+", "a">>, <<"a", "+">>, <<"-", "a">>, <<"a", "-">>,
     <<"+", "b">>, <<"-", "b">>, <<"a", "b", "+">>}
Modifications == VecsUpTo(ModTags, MaxMods)

\* the jobs handed to report: across the end of June, on the last day of
\* January, from January into February over three days, on a Saturday and
\* on the Sunday that opens the year, and one shorter than the resolution
ReportJobs ==
    {[start |-> At(6, 30, 23, 0), end |-> At(7, 1, 1, 0), tags |-> <<"a">>],
     [start |-> At(1, 31, 9, 0), end |-> At(1, 31, 10, 0), tags |-> <<>>],
     [start |-> At(1, 30, 22, 0), end |-> At(2, 1, 2, 0), tags |-> <<"b", "a">>],
     [start |-> At(1, 7, 9, 0), end |-> At(1, 7, 10, 30), tags |-> <<"b">>],
     [start |-> At(1, 1, 8, 0), end |-> At(1, 1, 9, 0), tags |-> <<"a">>],
     [start |-> At(6, 15, 10, 0), end |-> At(6, 15, 10, 10), tags |-> <<>>]}

\* the lists of them, each job at the position of its index
ReportJobLists ==
    {[i \in DOMAIN v |-> <<i - 1, v[i]>>] :
        v \in VecsUpTo(ReportJobs, MaxReportJobs)}

\* the instants subtracted from each other, in seconds: 22 min 17 s apart
SubStep == 1337
SubInstants == {i * SubStep : i \in 0..MaxSubSteps}

NoTagSetCall == [op |-> "new", vec |-> <<>>, tag |-> <<>>, str |-> <<>>]

InitTags ==
    /\ tagset = <<>>
    /\ ts_call = NoTagSetCall
    /\ ts_result = None

InitRep == rep_out = None

InitSub ==
    /\ sub_self = 0
    /\ sub_other = 0
    /\ sub_result = None

(***************************************************************************)
(* The command line: Command::parse, then set_message                      *)
(***************************************************************************)
InitList ==
    /\ tag_configuration = <<>>
    /\ default_configuration = [resolution |-> 15, pay |-> None,
                                max_hours |-> None]
    /\ query_tags = <<>>
    /\ resolved = None

Init ==
    /\ \/ /\ args \in TimeArgs
          /\ ~(IsSome(args.start) /\ IsSome(args.back))
          /\ now \in TimesOfDay
       \/ /\ args \in RequestArgs
          /\ now = Noon
    /\ open_start \in OpenStarts
    /\ pc = "args"
    /\ cmd = NoCommand
    /\ last_message = None
    /\ InitList
    /\ InitJobs
    /\ InitTags
    /\ InitRep
    /\ InitSub

DoParse ==
    /\ pc = "args"
    /\ LET r == Parse(args, open_start, now)
       IN  IF r.variant = "panic"
           THEN pc' = "panic_parse" /\ cmd' = cmd
           ELSE pc' = "parsed" /\ cmd' = r
    /\ UNCHANGED <<args, open_start, now, last_message>>
    /\ UNCHANGED listVars
    /\ UNCHANGED jobVars
    /\ UNCHANGED <<tsVars, repVars, subVars>>

DoSetMessage(m) ==
    /\ pc = "parsed"
    /\ LET r == SetMessage(cmd, m)
       IN  IF r.variant = "panic"
           THEN pc' = "panic_set_message" /\ cmd' = cmd
                /\ last_message' = last_message
           ELSE pc' = pc /\ cmd' = r /\ last_message' = Some(m)
    /\ UNCHANGED <<args, open_start, now>>
    /\ UNCHANGED listVars
    /\ UNCHANGED jobVars
    /\ UNCHANGED <<tsVars, repVars, subVars>>

Next ==
    \/ DoParse
    \/ \E m \in NewMessages : DoSetMessage(m)

Spec == Init /\ [][Next]_vars

(***************************************************************************)
(* Tag resolution                                                          *)
(***************************************************************************)
InitResolve ==
    /\ args = NoArgs
    /\ open_start = None
    /\ now = Noon
    /\ pc = "args"
    /\ cmd = NoCommand
    /\ last_message = None
    /\ tag_configuration \in TagConfigurations
    /\ default_configuration \in Configurations
    /\ query_tags \in TagSets
    /\ resolved = None
    /\ InitJobs
    /\ InitTags
    /\ InitRep
    /\ InitSub

DoGetConfigurationWithTag ==
    /\ resolved' = Some(GetConfigurationWithTag(query_tags, tag_configuration,
                                                default_configuration))
    /\ UNCHANGED <<tag_configuration, default_configuration, query_tags>>
    /\ UNCHANGED cmdVars
    /\ UNCHANGED jobVars
    /\ UNCHANGED <<tsVars, repVars, subVars>>

NextResolve == DoGetConfigurationWithTag

SpecResolve == InitResolve /\ [][NextResolve]_vars

(***************************************************************************)
(* A JobList: new_from, then push and limit                                *)
(***************************************************************************)
InitCommand ==
    /\ args = NoArgs
    /\ open_start = None
    /\ now = Noon
    /\ pc = "args"
    /\ cmd = NoCommand
    /\ last_message = None

InitJobList ==
    /\ InitCommand
    /\ tag_configuration \in LedgerTagConfigurations
    /\ default_configuration \in
          {[resolution |-> 15, pay |-> p, max_hours |-> None] :
              p \in {None, Some(10)}}
    /\ query_tags = <<>>
    /\ resolved = None
    /\ InitJobs
    /\ InitTags
    /\ InitRep
    /\ InitSub

DoPush(pos, job) ==
    /\ Len(jobs) < MaxJobs
    /\ jobs' = Push(jobs, pos, job)
    /\ call' = [op |-> "push", pos |-> pos, job |-> job, count |-> 0,
                len |-> Len(jobs)]
    /\ limit_report' = None
    /\ UNCHANGED listVars
    /\ UNCHANGED cmdVars
    /\ UNCHANGED <<tsVars, repVars, subVars>>

DoLimit(count) ==
    /\ jobs' = Limit(jobs, count)
    /\ call' = [op |-> "limit", pos |-> 0, job |-> <<>>, count |-> count,
                len |-> Len(jobs)]
    /\ limit_report' = LimitReport(jobs, count)
    /\ UNCHANGED listVars
    /\ UNCHANGED cmdVars
    /\ UNCHANGED <<tsVars, repVars, subVars>>

NextJobList ==
    \/ \E pos \in LedgerPositions, job \in JobKinds : DoPush(pos, job)
    \/ \E count \in 0..(MaxJobs + 1) : DoLimit(count)

SpecJobList == InitJobList /\ [][NextJobList]_vars

(***************************************************************************)
(* A TagSet: built by a conversion, then changed and used as a base        *)
(***************************************************************************)
InitTagSet ==
    /\ InitCommand
    /\ InitList
    /\ InitJobs
    /\ InitTags
    /\ InitRep
    /\ InitSub

TagSetFrame == UNCHANGED <<cmdVars, listVars, jobVars, repVars, subVars>>

DoFromVec(v) ==
    /\ tagset' = FromVec(v)
    /\ ts_call' = [NoTagSetCall EXCEPT !.op = "from_vec", !.vec = v]
    /\ ts_result' = None
    /\ TagSetFrame

DoFromOptionVec(o) ==
    /\ tagset' = FromOptionVec(o)
    /\ ts_call' = [NoTagSetCall EXCEPT !.op = "from_option_vec",
                                       !.vec = Flatten(o)]
    /\ ts_result' = None
    /\ TagSetFrame

DoFromStr(str) ==
    /\ tagset' = FromStr(str)
    /\ ts_call' = [NoTagSetCall EXCEPT !.op = "from_str", !.str = str]
    /\ ts_result' = None
    /\ TagSetFrame

DoFromOptionString(o) ==
    /\ tagset' = FromOptionString(o)
    /\ ts_call' = [NoTagSetCall EXCEPT !.op = "from_option_string",
                                       !.str = Flatten(o)]
    /\ ts_result' = None
    /\ TagSetFrame

DoInsert(tag) ==
    /\ Len(tagset) < MaxTags
    /\ tagset' = Insert(tagset, tag)
    /\ ts_call' = [NoTagSetCall EXCEPT !.op = "insert", !.tag = tag]
    /\ ts_result' = None
    /\ TagSetFrame

DoInsertMany(v) ==
    /\ Len(tagset) + Len(v) <= MaxTags
    /\ tagset' = InsertMany(tagset, v)
    /\ ts_call' = [NoTagSetCall EXCEPT !.op = "insert_many", !.vec = v]
    /\ ts_result' = None
    /\ TagSetFrame

DoRemove(tag) ==
    /\ tagset' = Remove(tagset, tag)
    /\ ts_call' = [NoTagSetCall EXCEPT !.op = "remove", !.tag = tag]
    /\ ts_result' = None
    /\ TagSetFrame

DoModify(modification) ==
    /\ ts_result' = Some(Modify(tagset, modification))
    /\ ts_call' = [NoTagSetCall EXCEPT !.op = "modify", !.vec = modification]
    /\ UNCHANGED tagset
    /\ TagSetFrame

NextTagSet ==
    \/ \E v \in TagVecs : DoFromVec(v)
    \/ \E o \in {None} \cup {Some(v) : v \in TagVecs} : DoFromOptionVec(o)
    \/ \E str \in TagSetStrings : DoFromStr(str)
    \/ \E o \in {None} \cup {Some(str) : str \in TagSetStrings} :
          DoFromOptionString(o)
    \/ \E tag \in PlainTags : DoInsert(tag)
    \/ \E v \in TagVecs : DoInsertMany(v)
    \/ \E tag \in PlainTags : DoRemove(tag)
    \/ \E modification \in Modifications : DoModify(modification)

SpecTagSet == InitTagSet /\ [][NextTagSet]_vars

(***************************************************************************)
(* The calendar report of a JobList                                        *)
(***************************************************************************)
InitReport ==
    /\ InitCommand
    /\ tag_configuration \in LedgerTagConfigurations
    /\ default_configuration \in
          {[resolution |-> 15, pay |-> p, max_hours |-> None] :
              p \in {None, Some(10)}}
    /\ query_tags = <<>>
    /\ resolved = None
    /\ jobs \in ReportJobLists
    /\ call = NoCall
    /\ limit_report = None
    /\ InitTags
    /\ InitRep
    /\ InitSub

DoReport ==
    /\ rep_out = None
    /\ rep_out' = Some(Report(jobs, tag_configuration, default_configuration))
    /\ UNCHANGED <<cmdVars, listVars, jobVars, tsVars, subVars>>

NextReport == DoReport

SpecReport == InitReport /\ [][NextReport]_vars

(***************************************************************************)
(* The difference of two instants                                          *)
(***************************************************************************)
InitDifference ==
    /\ InitCommand
    /\ InitList
    /\ InitJobs
    /\ InitTags
    /\ InitRep
    /\ sub_self \in SubInstants
    /\ sub_other \in SubInstants
    /\ sub_result = None

DoSub ==
    /\ sub_result = None
    /\ sub_result' = Some(Sub(sub_self, sub_other))
    /\ UNCHANGED <<sub_self, sub_other>>
    /\ UNCHANGED <<cmdVars, listVars, jobVars, tsVars, repVars>>

NextDifference == DoSub

SpecDifference == InitDifference /\ [][NextDifference]_vars

(***************************************************************************)
(* What the claims speak of, stated on the inputs                          *)
(***************************************************************************)
HasStart == IsSome(args.start)
HasBack == IsSome(args.back)
HasEnd == IsSome(args.end)
HasDuration == IsSome(args.duration)
HasSetConfiguration ==
    IsSome(args.resolution) \/ IsSome(args.pay) \/ IsSome(args.max_hours)
Parsed == pc # "args"

\* the instant a time spec names when its missing fields come from base
InstantOf(tok, base) ==
    CASE Len(tok) = 0 -> base
      [] Len(tok) = 1 -> (base \div DayMinutes) * DayMinutes + tok[1]
      [] OTHER -> tok[1] * DayMinutes + tok[2]

\* the start spec of the invocation: the forward one first
StartToken == IF HasStart THEN args.start[1] ELSE args.back[1]
StartInstant == InstantOf(StartToken, now)
ClosedVariant == IF HasStart THEN "Add" ELSE "BackAdd"
OpenVariant == IF HasStart THEN "Start" ELSE "Back"

\* the tags of the invocation as a vector
GivenTags ==
    IF args.tags = None THEN None ELSE Some(Split(args.tags[1], ","))

\* which of the requests the invocation supplies
Supplied(name) ==
    CASE name = "list" -> IsSome(args.list)
      [] name = "export" -> IsSome(args.export)
      [] name = "report" -> IsSome(args.report)
      [] name = "list_tags" -> IsSome(args.list_tags)
      [] name = "configuration" -> args.configuration
      [] name = "set_configuration" -> HasSetConfiguration
      [] name = "legacy_import" -> IsSome(args.legacy_import)

VariantOf(name) ==
    CASE name = "list" -> "List"
      [] name = "export" -> "ExportCSV"
      [] name = "report" -> "Report"
      [] name = "list_tags" -> "ListTags"
      [] name = "configuration" -> "ShowConfiguration"
      [] name = "set_configuration" -> "SetConfiguration"
      [] name = "legacy_import" -> "LegacyImport"

AllRequests ==
    {"list", "export", "report", "list_tags", "configuration",
     "set_configuration", "legacy_import"}
AnyRequest == \E r \in AllRequests : Supplied(r)

\* the variant of the first supplied request of a priority order
FirstSupplied(order) ==
    LET hits == {i \in 1..Len(order) : Supplied(order[i])}
        first == CHOOSE i \in hits : \A j \in hits : i <= j
    IN  VariantOf(order[first])

CommandVariants ==
    {"Start", "Add", "Back", "BackAdd", "End", "MessageTags", "List",
     "Report", "ExportCSV", "ShowConfiguration", "SetConfiguration",
     "LegacyImport", "ListTags"}

(***************************************************************************)
(* C1: get_configuration_with_tag returns the earliest tag of the TagSet   *)
(* that has an override, with exactly that override; when no tag of the    *)
(* TagSet has one (the empty TagSet too) it returns the empty tag and the  *)
(* default configuration.                                                  *)
(***************************************************************************)
C1_FirstMatch ==
    IsSome(resolved) =>
        LET hits == {i \in 1..Len(query_tags) :
                        query_tags[i] \in DOMAIN tag_configuration}
        IN  IF hits = {}
            THEN /\ resolved[1][1] = ""
                 /\ resolved[1][2] = default_configuration
            ELSE \E i \in hits :
                    /\ \A j \in hits : i <= j
                    /\ resolved[1][1] = query_tags[i]
                    /\ resolved[1][2] = tag_configuration[query_tags[i]]

\* TagSet ["b","a"] with overrides a: 10 and b: 20 resolves to b and 20
C1_Witness ==
    /\ IsSome(resolved)
    /\ query_tags = <<"b", "a">>
    /\ DOMAIN tag_configuration = {"a", "b"}
    /\ tag_configuration["a"].pay = Some(10)
    /\ tag_configuration["b"].pay = Some(20)
    /\ resolved[1][1] = "b"
    /\ resolved[1][2].pay = Some(20)

(***************************************************************************)
(* C2: with a start (forward or back-reference) and an end spec that has   *)
(* an explicit field, the end is resolved against the start and moved      *)
(* forward by exactly one day if it lies before the start; when neither    *)
(* spec has a date and the end's time of day is earlier than the start's,  *)
(* the end is the day after the start's date at the end's time of day and  *)
(* the duration is strictly positive.                                      *)
(***************************************************************************)
C2_EndRollsForward ==
    (Parsed /\ (HasStart \/ HasBack) /\ HasEnd /\ Len(args.end[1]) > 0) =>
        LET S == StartInstant
            tok == args.end[1]
            E == InstantOf(tok, S)
        IN  /\ pc = "parsed"
            /\ cmd.variant = ClosedVariant
            /\ cmd.start = S
            /\ cmd.end = IF E < S THEN E + DayMinutes ELSE E
            /\ (Len(StartToken) <= 1 /\ Len(tok) = 1
                    /\ tok[1] < S % DayMinutes) =>
                  /\ cmd.end = ((S \div DayMinutes) + 1) * DayMinutes + tok[1]
                  /\ cmd.end - cmd.start > 0

\* start 12:00, end 06:00: the end is tomorrow 06:00
C2_Witness ==
    /\ pc = "parsed"
    /\ args.start = Some(<<720>>)
    /\ args.end = Some(<<360>>)
    /\ cmd.variant = "Add"
    /\ cmd.start = 720
    /\ cmd.end = DayMinutes + 360

(***************************************************************************)
(* C3: with a start (forward or back-reference) and a bare end marker the  *)
(* end is the current time and is never moved; the start is moved back by  *)
(* exactly one day if and only if it lies after the current time.          *)
(***************************************************************************)
C3_BareEndRollsStartBack ==
    (Parsed /\ (HasStart \/ HasBack) /\ HasEnd /\ Len(args.end[1]) = 0) =>
        LET S == StartInstant
        IN  /\ pc = "parsed"
            /\ cmd.variant = ClosedVariant
            /\ cmd.end = now
            /\ cmd.start = IF S > now THEN S - DayMinutes ELSE S

\* at 12:00, a back-reference start 18:00 with a bare end: yesterday 18:00
C3_Witness ==
    /\ pc = "parsed"
    /\ now = 720
    /\ args.back = Some(<<1080>>)
    /\ args.end = Some(<<>>)
    /\ cmd.variant = "BackAdd"
    /\ cmd.start = 1080 - DayMinutes
    /\ cmd.end = 720

(***************************************************************************)
(* C4: the first matching branch decides: a forward start gives Start or   *)
(* Add whatever else is supplied, else a back-reference gives Back or      *)
(* BackAdd, else an end spec gives End; inside a start branch the end spec *)
(* goes before the duration, a duration alone gives end = start +          *)
(* duration, and neither gives the open variant.                           *)
(***************************************************************************)
C4_EndGiven(S) ==
    LET tok == args.end[1]
        E == InstantOf(tok, S)
    IN  IF Len(tok) = 0 THEN now
        ELSE IF E < S THEN E + DayMinutes ELSE E

C5_ListTagsBeforeConfiguration ==
    (Parsed /\ ~HasStart /\ ~HasBack /\ ~HasEnd /\ AnyRequest) =>
        cmd.variant =
            FirstSupplied(<<"list", "export", "report", "list_tags",
                            "configuration", "set_configuration",
                            "legacy_import">>)

(***************************************************************************)
(* C5 amended: without start, back-reference and end spec the requests go  *)
(* in the order List, Export, Report, ShowConfiguration, SetConfiguration, *)
(* LegacyImport, ListTags: a list-tags request gives ListTags only when    *)
(* none of the others is supplied.                                         *)
(***************************************************************************)
C5_RequestOrder ==
    (Parsed /\ ~HasStart /\ ~HasBack /\ ~HasEnd /\ AnyRequest) =>
        cmd.variant =
            FirstSupplied(<<"list", "export", "report", "configuration",
                            "set_configuration", "legacy_import",
                            "list_tags">>)

\* list-tags together with a legacy import and a rate
C5_Witness ==
    /\ Parsed
    /\ ~HasStart /\ ~HasBack /\ ~HasEnd
    /\ IsSome(args.list_tags) /\ IsSome(args.legacy_import)
    /\ IsSome(args.pay) /\ ~args.configuration
    /\ cmd.variant = "SetConfiguration"

(***************************************************************************)
(* C6: with only an end spec the End's instant is resolved against the     *)
(* start of the open job if there is one and against the current time      *)
(* otherwise; message and tags go into the End unchanged.                  *)
(***************************************************************************)
C6_EndAgainstOpenJob ==
    (Parsed /\ ~HasStart /\ ~HasBack /\ HasEnd) =>
        /\ pc = "parsed"
        /\ cmd.variant = "End"
        /\ cmd.end = InstantOf(args.end[1],
                               IF IsSome(open_start) THEN open_start[1]
                               ELSE now)
        /\ last_message = None => cmd.message = args.message
        /\ cmd.tags = GivenTags

\* the open job started yesterday 09:00: end 06:00 is yesterday 06:00
C6_Witness ==
    /\ pc = "parsed"
    /\ ~HasStart /\ ~HasBack
    /\ open_start = Some(540 - DayMinutes)
    /\ now = 720
    /\ args.end = Some(<<360>>)
    /\ args.message = Some(Some("m"))
    /\ args.tags = Some(<<"a", ",", "b">>)
    /\ cmd.variant = "End"
    /\ cmd.end = 360 - DayMinutes
    /\ cmd.message = Some(Some("m"))
    /\ cmd.tags = Some(<< <<"a">>, <<"b">> >>)

(***************************************************************************)
(* C7 as stated: a configuration value (resolution, rate or max-hours)     *)
(* together with a start, a back-reference or an end spec is an invalid    *)
(* invocation: no Command is produced.                                     *)
(***************************************************************************)
C7_ConfigurationWithMutationInvalid ==
    (Parsed /\ HasSetConfiguration /\ (HasStart \/ HasBack \/ HasEnd)) =>
        /\ pc = "panic_parse"
        /\ cmd = NoCommand

(***************************************************************************)
(* C8: with no start, back-reference, end and no request at all, a message *)
(* or tags give MessageTags with exactly that message and those tags, and  *)
(* neither of them gives no Command: the invocation fails.                 *)
(***************************************************************************)
C8_MessageTagsOrInvalid ==
    (Parsed /\ ~HasStart /\ ~HasBack /\ ~HasEnd /\ ~AnyRequest) =>
        IF IsSome(args.message) \/ IsSome(args.tags)
        THEN /\ pc # "panic_parse"
             /\ cmd.variant = "MessageTags"
             /\ cmd.message =
                    (IF args.message = None \/ args.message = Some(None)
                     THEN None ELSE Some(args.message[1][1]))
             /\ cmd.tags = GivenTags
        ELSE /\ pc = "panic_parse"
             /\ cmd = NoCommand

\* nothing at all is supplied: the parse panics
C8_Witness ==
    /\ pc = "panic_parse"
    /\ ~HasStart /\ ~HasBack /\ ~HasEnd /\ ~AnyRequest
    /\ args.message = None /\ args.tags = None
    /\ cmd = NoCommand

(***************************************************************************)
(* C9: set_message on Start, Add, Back, BackAdd or End sets the message to *)
(* the new one, whatever it was, and keeps the variant, the instants and   *)
(* the tags.                                                               *)
(***************************************************************************)
C9_SetMessageFrame ==
    [][(pc = "parsed" /\ pc' = "parsed") =>
          /\ cmd'.variant = cmd.variant
          /\ cmd'.message = Some(Some(last_message'[1]))
          /\ cmd'.tags = cmd.tags
          /\ DOMAIN cmd' = DOMAIN cmd
          /\ "start" \in DOMAIN cmd => cmd'.start = cmd.start
          /\ "end" \in DOMAIN cmd => cmd'.end = cmd.end]_vars

\* the message given on the command line is overwritten
C9_Witness ==
    /\ pc = "parsed"
    /\ args.message = Some(Some("m"))
    /\ last_message = Some("y")
    /\ cmd.variant = "BackAdd"
    /\ cmd.message = Some(Some("y"))

C11_Rate(i) ==
    GetConfiguration(jobs[i][2].tags, tag_configuration,
                     default_configuration).pay

C11_Rated == {i \in 1..Len(jobs) : IsSome(C11_Rate(i))}

RECURSIVE C11_Sum(_)
C11_Sum(S) ==
    IF S = {} THEN 0
    ELSE LET i == CHOOSE x \in S : TRUE
             job == jobs[i][2]
         IN  C11_Rate(i)[1]
                 * Hours(job, GetConfiguration(job.tags, tag_configuration,
                                               default_configuration))
             + C11_Sum(S \ {i})

C11_PayOverall ==
    LET pay == PayOverall(jobs, tag_configuration, default_configuration)
    IN  /\ (pay = None) <=> (C11_Rated = {})
        /\ C11_Rated # {} => pay = Some(C11_Sum(C11_Rated))
        /\ (call.op = "push" /\ Len(jobs) \in C11_Rated) => IsSome(pay)

\* a rated job pushed onto a list of unrated jobs: None has become Some
C11_Witness ==
    /\ call.op = "push"
    /\ Len(jobs) >= 2
    /\ C11_Rated = {Len(jobs)}
    /\ PayOverall(SubSeq(jobs, 1, Len(jobs) - 1), tag_configuration,
                  default_configuration) = None
    /\ PayOverall(jobs, tag_configuration, default_configuration) = Some(900)

(***************************************************************************)
(* C12: limit(n) on a list of length L keeps exactly the last min(n, L)    *)
(* entries, in their order and with their (position, job) pairs unchanged, *)
(* removing from the front only; n >= L changes nothing, limit(0) empties  *)
(* the list.                                                               *)
(***************************************************************************)
C12_LimitKeepsLast ==
    [][call'.op = "limit" =>
          LET L == Len(jobs)
              n == call'.count
              k == IF n < L THEN n ELSE L
          IN  /\ call'.len = L
              /\ jobs' = SubSeq(jobs, L - k + 1, L)
              /\ n >= L => jobs' = jobs
              /\ n = 0 => jobs' = <<>>]_vars

\* limit(2) on three entries with different positions left the last two
C12_Witness ==
    /\ call.op = "limit"
    /\ call.len = 3
    /\ call.count = 2
    /\ Len(jobs) = 2
    /\ jobs[1][1] # jobs[2][1]

(***************************************************************************)
(* C13: when limit(n) is asked to retain more entries than the list holds, *)
(* it lets its caller know how many entries remain against the number      *)
(* requested.                                                              *)
(***************************************************************************)
C13_UnderSupplyReported ==
    (call.op = "limit" /\ call.count > call.len) => IsSome(limit_report)

(***************************************************************************)
(* C14: after any sequence of push and limit every entry carries the       *)
(* ledger position it was pushed with, never its index in the list:        *)
(* push appends (pos, job) as given, limit leaves the retained pairs as    *)
(* they were, positions() is the set of the retained entries' positions    *)
(* and the listing prints each entry's position plus one.                  *)
(***************************************************************************)
C14_PositionsKept ==
    [][/\ call'.op = "push" =>
              jobs' = Append(jobs, <<call'.pos, call'.job>>)
       /\ call'.op = "limit" =>
              /\ Len(jobs') <= Len(jobs)
              /\ \A i \in 1..Len(jobs') :
                    jobs'[i] = jobs[i + Len(jobs) - Len(jobs')]
       /\ Positions(jobs') = {jobs'[i][1] : i \in 1..Len(jobs')}
       /\ Listing(jobs') = [i \in 1..Len(jobs') |-> jobs'[i][1] + 1]]_vars

\* after push(7, ..), push(3, ..), limit(1) the one entry left, at index 0,
\* still has position 3 and is listed as 4
C14_Witness ==
    /\ call.op = "limit"
    /\ call.len = 2
    /\ Len(jobs) = 1
    /\ jobs[1][1] = 3
    /\ Positions(jobs) = {3}
    /\ Listing(jobs) = <<4>>

(***************************************************************************)
(* C15: a TagSet never contains the same tag twice: every construction     *)
(* (from a vector, from an optional vector, from a '*'-separated string)   *)
(* collapses duplicates, also those that are not neighbours, and insert,   *)
(* insert_many and remove keep it free of duplicates.                      *)
(***************************************************************************)
C15_NoDuplicates ==
    \A i, j \in 1..Len(tagset) : tagset[i] = tagset[j] => i = j

(***************************************************************************)
(* C16: base.modify(modification) applies the entries with a marker to the *)
(* base: an add entry appends its tag to the base's tags if absent, a      *)
(* remove entry deletes it from them, the other base tags stay in order;   *)
(* without any marker the result is the modification.  Stated for          *)
(* modifications whose markers are all written in front.                   *)
(***************************************************************************)
C16_IsMarker(c) == c \in {"+", "-"}

C16_MarkerFree(tag) == \A i \in 1..Len(tag) : ~C16_IsMarker(tag[i])

C16_PrefixOnly(modification) ==
    \A i \in 1..Len(modification) :
        \/ C16_MarkerFree(modification[i])
        \/ /\ C16_IsMarker(modification[i][1])
           /\ C16_MarkerFree(Tail(modification[i]))

RECURSIVE C16_Apply(_, _)
C16_Apply(base, modification) ==
    IF modification = <<>> THEN base
    ELSE LET e == Head(modification)
         IN  IF StartsWith(e, "+")
             THEN C16_Apply(Insert(base, Tail(e)), Tail(modification))
             ELSE IF StartsWith(e, "-")
             THEN C16_Apply(Remove(base, Tail(e)), Tail(modification))
             ELSE C16_Apply(base, Tail(modification))

C16_Expected(base, modification) ==
    IF \E i \in 1..Len(modification) : ~C16_MarkerFree(modification[i])
    THEN C16_Apply(base, modification)
    ELSE modification

C16_ModifyAppliesToBase ==
    (ts_call.op = "modify" /\ C16_PrefixOnly(ts_call.vec)) =>
        ts_result = Some(C16_Expected(tagset, ts_call.vec))

(***************************************************************************)
(* C17: in modify a marker written behind the tag means what the marker    *)
(* written in front means, and is no part of the tag: "x+" adds x as "+x"  *)
(* does, "x-" removes x as "-x" does.                                      *)
(***************************************************************************)
C17_PrefixForm(modification) ==
    [i \in 1..Len(modification) |->
        LET e == modification[i]
        IN  IF /\ Len(e) > 1
               /\ C16_IsMarker(e[Len(e)])
               /\ C16_MarkerFree(SubSeq(e, 1, Len(e) - 1))
            THEN <<e[Len(e)]>> \o SubSeq(e, 1, Len(e) - 1)
            ELSE e]

C17_SuffixAsPrefix ==
    ts_call.op = "modify" =>
        ts_result = Some(Modify(tagset, C17_PrefixForm(ts_call.vec)))

(***************************************************************************)
(* C18: for every month of the calendar report every day from 1 up to and  *)
(* including the month's last day is visited: it has a cell in the grid    *)
(* and its hours are part of the month's summary line.                     *)
(***************************************************************************)
C18_MonthKeys(years, year, month) ==
    {k \in DOMAIN years : k[1] = year /\ k[2] = month}

C18_LastDayVisited ==
    IsSome(rep_out) =>
        \A i \in 1..Len(rep_out[1].months) :
            LET m == rep_out[1].months[i]
            IN  /\ {m.cells[j].day : j \in 1..Len(m.cells)}
                       = 1..DaysInMonth(m.year, m.month)
                /\ m.month_hours
                       = DayHours(rep_out[1].years,
                                  C18_MonthKeys(rep_out[1].years, m.year,
                                                m.month))

(***************************************************************************)
(* C19: a job that crosses a local-day boundary contributes one fragment   *)
(* per day it touches; each fragment's hours are added to the bucket of    *)
(* the fragment's own year, month and day and of the tag its tags resolve  *)
(* to, and the fragments' durations sum to the job's duration.             *)
(***************************************************************************)
C19_Days(job) ==
    {d \in DayOfYear(job.start)..DayOfYear(job.end) :
        d = DayOfYear(job.start) \/ d * DayMinutes < job.end}

C19_Portion(job, d) ==
    [start |-> IF job.start > d * DayMinutes THEN job.start
               ELSE d * DayMinutes,
     end |-> IF job.end < (d + 1) * DayMinutes THEN job.end
             ELSE (d + 1) * DayMinutes,
     tags |-> job.tags]

C19_Tag(tags) ==
    LET hit == {n \in 1..Len(tags) : tags[n] \in DOMAIN tag_configuration}
    IN  IF hit = {} THEN None
        ELSE Some(tags[CHOOSE n \in hit : \A o \in hit : n <= o])

C19_Key(p) ==
    <<ReportYear, MonthOf(p[2] * DayMinutes), DayOf(p[2] * DayMinutes),
      C19_Tag(jobs[p[1]][2].tags)>>

C19_Pairs ==
    UNION {{<<i, d>> : d \in C19_Days(jobs[i][2])} : i \in 1..Len(jobs)}

RECURSIVE C19_Sum(_)
C19_Sum(S) ==
    IF S = {} THEN 0
    ELSE LET p == CHOOSE x \in S : TRUE
             job == jobs[p[1]][2]
         IN  Hours(C19_Portion(job, p[2]),
                   GetConfiguration(job.tags, tag_configuration,
                                    default_configuration))
             + C19_Sum(S \ {p})

RECURSIVE C19_Duration(_)
C19_Duration(fragments) ==
    IF fragments = <<>> THEN 0
    ELSE Head(fragments).end - Head(fragments).start
             + C19_Duration(Tail(fragments))

C19_FragmentsBucketed ==
    IsSome(rep_out) =>
        LET years == rep_out[1].years
        IN  /\ DOMAIN years = {C19_Key(p) : p \in C19_Pairs}
            /\ \A key \in DOMAIN years :
                  years[key] = C19_Sum({p \in C19_Pairs : C19_Key(p) = key})
            /\ \A i \in 1..Len(jobs) :
                  LET job == jobs[i][2]
                      fragments == JobSplit(job)
                  IN  /\ Len(fragments) = Cardinality(C19_Days(job))
                      /\ C19_Duration(fragments) = job.end - job.start
                      /\ \A n \in 1..Len(fragments) :
                            fragments[n] \in
                                {C19_Portion(job, d) : d \in C19_Days(job)}

\* the job from 2023-06-30 23:00 to 2023-07-01 01:00, tagged a: one hour
\* in the bucket of June 30 and one in the bucket of July 1, both under a
C19_Witness ==
    /\ IsSome(rep_out)
    /\ Len(jobs) = 1
    /\ jobs[1][2].start = At(6, 30, 23, 0)
    /\ jobs[1][2].end = At(7, 1, 1, 0)
    /\ DOMAIN tag_configuration = {"a"}
    /\ DOMAIN rep_out[1].years =
           {<<2023, 6, 30, Some("a")>>, <<2023, 7, 1, Some("a")>>}
    /\ rep_out[1].years[<<2023, 6, 30, Some("a")>>] = 60
    /\ rep_out[1].years[<<2023, 7, 1, Some("a")>>] = 60

(***************************************************************************)
(* C20: a - b is (hours, minutes) with hours * 60 + minutes the whole      *)
(* minutes from b to a, cut towards zero; |minutes| < 60; hours and        *)
(* minutes never have opposite signs; b - a is the negation of a - b in    *)
(* both components.                                                        *)
(***************************************************************************)
C20_SignPreserving ==
    IsSome(sub_result) =>
        LET hm == sub_result[1]
            d == sub_self - sub_other
            whole == hm.hours * 60 + hm.minutes
        IN  /\ d >= 0 => (whole >= 0 /\ whole * 60 <= d /\ d < (whole + 1) * 60)
            /\ d <= 0 => (whole <= 0 /\ whole * 60 >= d /\ d > (whole - 1) * 60)
            /\ hm.minutes > -60 /\ hm.minutes < 60
            /\ ~(hm.hours > 0 /\ hm.minutes < 0)
            /\ ~(hm.hours < 0 /\ hm.minutes > 0)
            /\ Sub(sub_other, sub_self)
                   = [hours |-> -hm.hours, minutes |-> -hm.minutes]

\* 0:00:00 minus 1:29:08 is -1 hour and -29 minutes, the 8 seconds cut off
C20_Witness ==
    /\ sub_self = 0
    /\ sub_other = 4 * SubStep
    /\ sub_result = Some([hours |-> -1, minutes |-> -29])

(***************************************************************************)
(* C21: in the calendar report the weekly sum is written and set back to   *)
(* zero exactly when a Sunday is reached and once more at the end of the   *)
(* month; each weekly sum written is the sum of the day totals of the days *)
(* visited since the one before; the weekly sums of a month add up to the  *)
(* month's summary hours; the month's hours and costs are those of the     *)
(* days visited in this month only.                                        *)
(***************************************************************************)
RECURSIVE C21_CellHours(_, _, _)
C21_CellHours(cells, from, to) ==
    IF from > to THEN 0
    ELSE (IF IsSome(cells[to].hours) THEN cells[to].hours[1] ELSE 0)
             + C21_CellHours(cells, from, to - 1)

RECURSIVE C21_WeekHours(_, _)
C21_WeekHours(weeks, n) ==
    IF n = 0 THEN 0 ELSE weeks[n].hours + C21_WeekHours(weeks, n - 1)

C21_RatedKeys(m) ==
    {k \in DOMAIN rep_out[1].years :
        /\ k[1] = m.year
        /\ k[2] = m.month
        /\ \E j \in 1..Len(m.cells) : m.cells[j].day = k[3]
        /\ IsSome(IF k[4] = None THEN default_configuration.pay
                  ELSE tag_configuration[k[4][1]].pay)}

RECURSIVE C21_Costs(_)
C21_Costs(keys) ==
    IF keys = {} THEN 0
    ELSE LET k == CHOOSE x \in keys : TRUE
             rate == IF k[4] = None THEN default_configuration.pay[1]
                     ELSE tag_configuration[k[4][1]].pay[1]
         IN  rep_out[1].years[k] * rate + C21_Costs(keys \ {k})

C21_WeeklySums ==
    IsSome(rep_out) =>
        \A i \in 1..Len(rep_out[1].months) :
            LET m == rep_out[1].months[i]
                n == Len(m.weeks)
                sundays == {j \in 1..Len(m.cells) :
                               NumDaysFromSunday(m.year, m.month,
                                                 m.cells[j].day) = 0}
            IN  /\ n = Cardinality(sundays) + 1
                /\ {m.weeks[w].at : w \in 1..(n - 1)}
                       = {j - 1 : j \in sundays}
                /\ m.weeks[n].at = Len(m.cells)
                /\ \A w \in 1..n :
                      m.weeks[w].hours
                          = C21_CellHours(m.cells,
                                          IF w = 1 THEN 1
                                          ELSE m.weeks[w - 1].at + 1,
                                          m.weeks[w].at)
                /\ C21_WeekHours(m.weeks, n) = m.month_hours
                /\ m.month_hours = C21_CellHours(m.cells, 1, Len(m.cells))
                /\ m.month_costs
                       = IF C21_RatedKeys(m) = {} THEN None
                         ELSE Some(C21_Costs(C21_RatedKeys(m)))

\* a job on Saturday, January 7 and a job on June 15: the week's 90 minutes
\* are written when Sunday, January 8 is reached, after seven cells, and
\* June's summary has the 15 minutes of June only
C21_Witness ==
    /\ IsSome(rep_out)
    /\ Len(jobs) = 2
    /\ jobs[1][2].start = At(1, 7, 9, 0)
    /\ jobs[2][2].start = At(6, 15, 10, 0)
    /\ Len(rep_out[1].months) = 2
    /\ rep_out[1].months[1].weeks[1] = [hours |-> 0, at |-> 0]
    /\ rep_out[1].months[1].weeks[2] = [hours |-> 90, at |-> 7]
    /\ rep_out[1].months[1].month_hours = 90
    /\ rep_out[1].months[2].month_hours = 15

(***************************************************************************)
(* C22: every Add and every BackAdd that Command::parse produces has       *)
(* end >= start, whatever the start spec, the end spec, the duration and   *)
(* the current time are.                                                   *)
(***************************************************************************)
C22_EndNotBeforeStart ==
    cmd.variant \in {"Add", "BackAdd"} => cmd.end >= cmd.start

(***************************************************************************)
(* C23: the open job's start influences the result of Command::parse only  *)
(* in the End branch: when a start spec or a back-reference spec is given, *)
(* or no end spec is given, the command (or the panic) is the same for     *)
(* every open_start, none included; Start and Add, Back and BackAdd are    *)
(* produced also while a job is open.                                      *)
(***************************************************************************)
C23_OutsideEndBranch ==
    IsSome(args.start) \/ IsSome(args.back) \/ ~IsSome(args.end)

C23_OpenStartOnlyInEnd ==
    C23_OutsideEndBranch =>
        /\ (pc \in {"parsed", "panic_set_message"} /\ last_message = None) =>
              \A o \in OpenStarts :
                  /\ Parse(args, o, now).variant = cmd.variant
                  /\ Parse(args, o, now) = cmd
        /\ pc = "panic_parse" =>
              \A o \in OpenStarts : Parse(args, o, now).variant = "panic"
        /\ (pc = "parsed" /\ IsSome(args.start)) =>
              cmd.variant \in {"Start", "Add"}
        /\ (pc = "parsed" /\ ~IsSome(args.start) /\ IsSome(args.back)) =>
              cmd.variant \in {"Back", "BackAdd"}

\* a start spec and an end spec while a job is open: an Add, the same
\* command as without an open job, and not the End the end spec alone gives
C23_Witness ==
    /\ pc = "parsed"
    /\ last_message = None
    /\ open_start = Some(OpenHour)
    /\ IsSome(args.start)
    /\ IsSome(args.end)
    /\ cmd.variant = "Add"
    /\ cmd = Parse(args, None, now)
    /\ Parse([args EXCEPT !.start = None], open_start, now).variant = "End"

====
